---- MODULE Spec2Model ----
(***************************************************************************)
(* A model of the wallet_qr package: the address classifier of utils.py,   *)
(* the QRConfig / Layout value types and the StyleManager of styles.py,    *)
(* and the render pipeline and batch loop of generator.py.                 *)
(*                                                                         *)
(* Python strings that the code inspects character by character (the       *)
(* address given to validate_wallet_address, the preset name given to      *)
(* from_preset, the data rendered by generate) are sequences of            *)
(* one-character strings; strings the code only compares or tests for      *)
(* emptiness (titles, colours, tags) are TLA+ strings.                     *)
(***************************************************************************)
EXTENDS Integers, Sequences, FiniteSets, TLC

VARIABLES
    \* validate_wallet_address
    address,        \* the argument
    verdict,        \* the returned pair, with the patterns that were tested
    \* QRConfig.from_preset / to_dict / from_dict
    preset_arg,     \* the name handed to from_preset
    cfg,            \* the QRConfig under test
    cfg_dict,       \* cfg.to_dict()
    cfg_back,       \* QRConfig.from_dict(cfg_dict)
    overridden,     \* the fields the caller assigned after loading
    \* Layout.auto
    lcfg,           \* the QRConfig handed to Layout.auto
    qr_size,        \* the (width, height) handed to Layout.auto
    layout,         \* the Layout it returned
    lprev,          \* configuration and layout before the last field change
    \* QRGenerator.generate_batch / generate
    selfconfig,     \* self.config
    addresses,      \* the list handed to generate_batch
    callback,       \* progress_callback: "none", "ok", or "raises"
    dir_state,      \* the output directory, see DirStates
    logo_file,      \* the file at config.logo_path: "missing", "unreadable", "ok"
    pc,             \* the statement the interpreter is at
    i,              \* the loop index of generate_batch (1-based)
    output_path,    \* the path handed to generate
    qr_img,         \* the QR image of the running generate call
    final_size,     \* the size of the canvas of the running generate call
    stages,         \* the stages the running generate call has completed
    canvas,         \* what the running generate call has drawn on its canvas
    exc,            \* the exception being handled, NoExc if none
    cause,          \* the exception a stage raised first in this call
    results,        \* the list generate_batch returns
    progress_calls, \* the argument tuples the callback was invoked with
    outcomes,       \* how each generate call ended, in call order
    files,          \* the image files that exist in the output directory
    printed,        \* the indices reported by the batch loop's handler
    \* StyleManager
    mgrA,           \* self.styles of the manager that saves
    madds,          \* the add_style and load_styles calls made on it
    style_file,     \* the JSON document save_styles wrote
    mgrB,           \* self.styles of the manager that loads
    mphase,         \* "adding", "saved", "constructed", "loaded"
    \* WalletQRCLI
    argv,           \* the options given on the command line, with their values
    cli_config      \* the QRConfig _create_qr_config returned

vvars == <<address, verdict>>
svars == <<preset_arg, cfg, cfg_dict, cfg_back, overridden>>
lvars == <<lcfg, qr_size, layout, lprev>>
genv  == <<selfconfig, addresses, callback, dir_state, logo_file>>
gloc  == <<pc, i, output_path, qr_img, final_size, stages, canvas, exc, cause>>
gout  == <<results, progress_calls, outcomes, files, printed>>
gvars == <<genv, gloc, gout>>
mvars == <<mgrA, madds, style_file, mgrB, mphase>>
cvars == <<argv, cli_config>>
vars  == <<vvars, svars, lvars, gvars, mvars, cvars>>

None == "None"

Rep(c, n) == [k \in 1..n |-> c]

---------------------------------------------------------------------------
(* Characters                                                              *)

LowerCase == {"a", "b", "c", "d", "e", "f", "g", "h", "i", "j", "k", "l", "m",
              "n", "o", "p", "q", "r", "s", "t", "u", "v", "w", "x", "y", "z"}
UpperCase == {"A", "B", "C", "D", "E", "F", "G", "H", "I", "J", "K", "L", "M",
              "N", "O", "P", "Q", "R", "S", "T", "U", "V", "W", "X", "Y", "Z"}
Digits == {"0", "1", "2", "3", "4", "5", "6", "7", "8", "9"}

\* what str.strip() removes
Whitespace == {" ", "\t", "\n", "\r", "\f"}

AllIn(s, class) == \A k \in 1..Len(s) : s[k] \in class

StartsWith(s, p) == Len(s) >= Len(p) /\ SubSeq(s, 1, Len(p)) = p

Drop(s, n) == SubSeq(s, n + 1, Len(s))

\* str.strip(): the part between the first and the last non-whitespace character
strip(s) ==
    LET keep == {k \in 1..Len(s) : s[k] \notin Whitespace}
    IN  IF keep = {} THEN <<>>
        ELSE LET first == CHOOSE k \in keep : \A j \in keep : k <= j
                 last  == CHOOSE k \in keep : \A j \in keep : j <= k
             IN  SubSeq(s, first, last)

\* Python's "$": the end of the string, or just before a newline that ends it
AtDollar(P(_), s) ==
    \/ P(s)
    \/ Len(s) > 0 /\ s[Len(s)] = "\n" /\ P(SubSeq(s, 1, Len(s) - 1))

---------------------------------------------------------------------------
(* utils.py: validate_wallet_address                                       *)

MinAddressLen == 10

BitcoinBody == LowerCase \cup (UpperCase \ {"I", "O"}) \cup Digits
HexDigits == {"a", "b", "c", "d", "e", "f", "A", "B", "C", "D", "E", "F"} \cup Digits
Base58 == (LowerCase \ {"l"}) \cup (UpperCase \ {"I", "O"}) \cup (Digits \ {"0"})
Base64Body == LowerCase \cup UpperCase \cup Digits \cup {"+", "/"}
GenericBody == LowerCase \cup UpperCase \cup Digits \cup {"-", "_", "+", "=", "/", "."}

\* ^(bc1|[13])[a-zA-HJ-NP-Z0-9]{25,39}$
BitcoinRest(r) == Len(r) >= 25 /\ Len(r) <= 39 /\ AllIn(r, BitcoinBody)
BitcoinExact(s) ==
    \/ StartsWith(s, <<"b", "c", "1">>) /\ BitcoinRest(Drop(s, 3))
    \/ Len(s) >= 1 /\ s[1] \in {"1", "3"} /\ BitcoinRest(Drop(s, 1))
MatchBitcoin(s) == AtDollar(BitcoinExact, s)

\* ^0x[a-fA-F0-9]{40}$
EthereumExactMut(s) ==
    /\ StartsWith(s, <<"0", "x">>)
    /\ Len(s) = 42
    /\ AllIn(Drop(s, 2), HexDigits \ UpperCase)
EthereumExact(s) ==
    /\ StartsWith(s, <<"0", "x">>)
    /\ Len(s) = 42
    /\ AllIn(Drop(s, 2), HexDigits)
MatchEthereum(s) == AtDollar(EthereumExact, s)

\* ^[LM3][a-km-zA-HJ-NP-Z1-9]{26,33}$
LitecoinExact(s) ==
    /\ Len(s) >= 1 /\ s[1] \in {"L", "M", "3"}
    /\ Len(s) - 1 >= 26 /\ Len(s) - 1 <= 33
    /\ AllIn(Drop(s, 1), Base58)
MatchLitecoin(s) == AtDollar(LitecoinExact, s)

\* ^[1-9A-HJ-NP-Za-km-z]{32,44}$
SolanaExact(s) == Len(s) >= 32 /\ Len(s) <= 44 /\ AllIn(s, Base58)
MatchSolana(s) == AtDollar(SolanaExact, s)

\* ^[A-Za-z0-9+/]+={0,2}$
Base64Exact(s) ==
    \E pad \in 0..2 :
        /\ Len(s) - pad >= 1
        /\ AllIn(SubSeq(s, 1, Len(s) - pad), Base64Body)
        /\ AllIn(Drop(s, Len(s) - pad), {"="})
MatchBase64(s) == AtDollar(Base64Exact, s)

GenericExactMut(s) == AllIn(s, GenericBody)
\* ^[A-Za-z0-9\-_+=/.]+$
GenericExact(s) == Len(s) >= 1 /\ AllIn(s, GenericBody)
MatchGeneric(s) == AtDollar(GenericExact, s)

\* re.match(patterns[coin_type], address)
re_match(coin_type, s) ==
    CASE coin_type = "bitcoin"  -> MatchBitcoin(s)
      [] coin_type = "ethereum" -> MatchEthereum(s)
      [] coin_type = "litecoin" -> MatchLitecoin(s)
      [] coin_type = "solana"   -> MatchSolana(s)
      [] coin_type = "base64"   -> MatchBase64(s)
      [] coin_type = "generic"  -> MatchGeneric(s)

\* the keys of the patterns dict, in insertion (= iteration) order
patternsMut == <<"bitcoin", "ethereum", "litecoin", "solana", "generic", "base64">>
patterns == <<"bitcoin", "ethereum", "litecoin", "solana", "base64", "generic">>

\* if not address or len(address) < 10
TooShortMut(a) == a = <<>> \/ Len(a) < MinAddressLen - 1
TooShort(a) == a = <<>> \/ Len(a) < MinAddressLen

\* for coin_type, pattern in patterns.items(): ... return False, "unknown"
RECURSIVE PatternLoop(_, _, _)
PatternLoop(a, k, consulted) ==
    IF k > Len(patterns)
    THEN [valid |-> FALSE, type |-> "unknown", consulted |-> consulted]
    ELSE IF re_match(patterns[k], a)
         THEN [valid |-> TRUE, type |-> patterns[k],
               consulted |-> Append(consulted, patterns[k])]
         ELSE PatternLoop(a, k + 1, Append(consulted, patterns[k]))

validate_wallet_address(a) ==
    IF TooShort(a)
    THEN [valid |-> FALSE, type |-> "invalid", consulted |-> <<>>]
    ELSE PatternLoop(strip(a), 1, <<>>)

\* The addresses of tests/test_generator.py and one of examples/example_batch.py.
TestEthereum ==
    <<"0", "x", "1", "2", "3", "4", "5", "6", "7", "8", "9", "0", "a", "b", "c", "d", "e", "f", "1", "2", "3", "4", "5", "6", "7", "8", "9", "0", "a", "b", "c", "d", "e", "f", "1", "2", "3", "4", "5", "6", "7", "8">>
TestBitcoin ==
    <<"b", "c", "1", "q", "a", "r", "0", "s", "r", "r", "r", "7", "x", "f", "k", "v", "y", "5", "l", "6", "4", "3", "l", "y", "d", "n", "w", "9", "r", "e", "5", "9", "g", "t", "z", "z", "w", "f", "5", "m", "d", "q">>
TestLitecoinLike ==
    <<"L", "c", "7", "g", "9", "h", "U", "J", "8", "G", "J", "g", "U", "P", "U", "g", "7", "n", "z", "9", "J", "N", "6", "b", "g", "h", "8", "J", "7", "h", "K", "9", "t", "8">>
TestTon ==
    <<"U", "Q", "D", "e", "1", "k", "B", "d", "U", "L", "Q", "E", "3", "R", "B", "t", "E", "2", "4", "j", "I", "Z", "Y", "D", "D", "7", "n", "P", "o", "v", "5", "S", "-", "x", "M", "-", "P", "A", "3", "d", "C", "z", "G", "X", "H", "c", "7", "X">>
TestShort == <<"s", "h", "o", "r", "t">>
TestSpaces ==
    <<"a", "d", "d", "r", "e", "s", "s", " ", "w", "i", "t", "h", " ", "s", "p", "a", "c", "e", "s">>
TestBadHex == <<"0", "x", "i", "n", "v", "a", "l", "i", "d">>
ScenarioEthereum ==
    <<"0", "x", "7", "4", "2", "d", "3", "5", "C", "c", "6", "6", "3", "4", "C", "0", "5", "3", "2", "9", "2", "5", "a", "3", "b", "8", "4", "4", "B", "c", "9", "e", "9", "0", "a", "3", "b", "9", "e", "0", "a", "1">>

TestAddresses ==
    {<<>>, TestEthereum, TestBitcoin, TestLitecoinLike, TestTon, TestShort,
     TestSpaces, TestBadHex, ScenarioEthereum}

\* Bounds of the generated inputs: whitespace padding on each side, and the
\* length of the run of one repeated character after the prefix.
MaxPad == 1
MaxRun == 45

AddressPrefixes ==
    {<<>>, <<"b", "c", "1">>, <<"1">>, <<"3">>, <<"0", "x">>, <<"L">>}
\* one character of each class the six patterns tell apart
FillChars == {"a", "F", "g", "l", "0", "7", "O", "+", "=", "-", "!"}
AddressTails == {<<>>, <<"=">>, <<"=", "=", "=">>, <<" ", "z">>}

\* leading blanks, a prefix, a run of one character, a tail, trailing newlines
GeneratedAddresses ==
    {Rep(" ", l) \o pre \o Rep(c, n) \o tail \o Rep("\n", r) :
        l \in 0..MaxPad, r \in 0..MaxPad,
        pre \in AddressPrefixes, c \in FillChars, n \in 0..MaxRun,
        tail \in AddressTails}

\* strings of blanks only, as long as the length check asks for
BlankAddresses == {Rep(" ", MinAddressLen), Rep(" ", MinAddressLen) \o <<"\t", "\n">>}

AddressInputs == TestAddresses \cup GeneratedAddresses \cup BlankAddresses

NoVerdict == [valid |-> FALSE, type |-> None, consulted |-> <<>>]

ValidateIdle == address = <<>> /\ verdict = NoVerdict

ValidateInit == address \in AddressInputs /\ verdict = NoVerdict


\* validate_wallet_address(address)
Validate ==
    /\ verdict = NoVerdict
    /\ verdict' = validate_wallet_address(address)
    /\ UNCHANGED <<address, svars, lvars, gvars, mvars, cvars>>

---------------------------------------------------------------------------
(* styles.py: QRConfig                                                     *)

EmptyDict == [k \in {} |-> None]
GradientCss == [k \in {"gradient"} |-> TRUE]

Fields ==
    {"version", "error_correction", "box_size", "border", "fill_color",
     "back_color", "title", "subtitle", "show_address", "show_qr_border",
     "add_logo", "logo_path", "logo_size", "watermark", "custom_css"}

\* the dataclass's field defaults
Defaults ==
    [version |-> 5, error_correction |-> "H", box_size |-> 12, border |-> 4,
     fill_color |-> "#2E86C1", back_color |-> "white",
     title |-> "CRYPTO WALLET", subtitle |-> "", show_address |-> TRUE,
     show_qr_border |-> TRUE, add_logo |-> FALSE, logo_path |-> None,
     logo_size |-> 80, watermark |-> "", custom_css |-> EmptyDict]

TypeError == [error |-> "TypeError"]

\* cls(**kw): the generated __init__; an unexpected keyword is a TypeError
QRConfig(kw) ==
    IF DOMAIN kw \subseteq Fields
    THEN [f \in Fields |-> IF f \in DOMAIN kw THEN kw[f] ELSE Defaults[f]]
    ELSE TypeError

professional ==
    [version |-> 5, error_correction |-> "H", box_size |-> 12, border |-> 4,
     fill_color |-> "#2E86C1", title |-> "CRYPTO WALLET ADDRESS",
     subtitle |-> "Secure Digital Asset Storage", show_address |-> TRUE,
     show_qr_border |-> TRUE, add_logo |-> TRUE, logo_size |-> 100]
minimalist ==
    [version |-> 4, error_correction |-> "Q", box_size |-> 15, border |-> 3,
     fill_color |-> "black", title |-> "", show_address |-> FALSE,
     show_qr_border |-> FALSE, add_logo |-> FALSE]
dark ==
    [version |-> 5, error_correction |-> "H", box_size |-> 10, border |-> 4,
     fill_color |-> "#27AE60", back_color |-> "#1C2833",
     title |-> "CRYPTO WALLET", subtitle |-> "Scan to Transfer",
     show_address |-> TRUE, show_qr_border |-> TRUE, add_logo |-> FALSE]
gradient ==
    [version |-> 4, error_correction |-> "H", box_size |-> 12, border |-> 3,
     fill_color |-> "#FF6B6B", title |-> "WALLET ADDRESS",
     subtitle |-> "Digital Currency", show_address |-> TRUE,
     show_qr_border |-> TRUE, add_logo |-> FALSE, custom_css |-> GradientCss]
business ==
    [version |-> 6, error_correction |-> "H", box_size |-> 10, border |-> 4,
     fill_color |-> "#2C3E50", title |-> "BUSINESS WALLET",
     subtitle |-> "Official Corporate Address", show_address |-> TRUE,
     show_qr_border |-> TRUE, add_logo |-> TRUE, logo_size |-> 120]
premium ==
    [version |-> 7, error_correction |-> "H", box_size |-> 14, border |-> 6,
     fill_color |-> "#F39C12", back_color |-> "#FEF9E7",
     title |-> "PREMIUM WALLET", subtitle |-> "Gold Standard Security",
     show_address |-> TRUE, show_qr_border |-> TRUE, add_logo |-> TRUE,
     logo_size |-> 150, watermark |-> "VERIFIED"]

n_professional == <<"p", "r", "o", "f", "e", "s", "s", "i", "o", "n", "a", "l">>
n_minimalist == <<"m", "i", "n", "i", "m", "a", "l", "i", "s", "t">>
n_dark == <<"d", "a", "r", "k">>
n_gradient == <<"g", "r", "a", "d", "i", "e", "n", "t">>
n_business == <<"b", "u", "s", "i", "n", "e", "s", "s">>
n_premium == <<"p", "r", "e", "m", "i", "u", "m">>

PresetNames ==
    {n_professional, n_minimalist, n_dark, n_gradient, n_business, n_premium}

\* the presets dict of from_preset
presets ==
    [n \in PresetNames |->
        CASE n = n_professional -> QRConfig(professional)
          [] n = n_minimalist   -> QRConfig(minimalist)
          [] n = n_dark         -> QRConfig(dark)
          [] n = n_gradient     -> QRConfig(gradient)
          [] n = n_business     -> QRConfig(business)
          [] n = n_premium      -> QRConfig(premium)]

\* str.lower() on the letters a preset name can hold
LowerOf ==
    [c \in UpperCase |->
        CASE c = "A" -> "a" [] c = "B" -> "b" [] c = "C" -> "c" [] c = "D" -> "d"
          [] c = "E" -> "e" [] c = "F" -> "f" [] c = "G" -> "g" [] c = "H" -> "h"
          [] c = "I" -> "i" [] c = "J" -> "j" [] c = "K" -> "k" [] c = "L" -> "l"
          [] c = "M" -> "m" [] c = "N" -> "n" [] c = "O" -> "o" [] c = "P" -> "p"
          [] c = "Q" -> "q" [] c = "R" -> "r" [] c = "S" -> "s" [] c = "T" -> "t"
          [] c = "U" -> "u" [] c = "V" -> "v" [] c = "W" -> "w" [] c = "X" -> "x"
          [] c = "Y" -> "y" [] c = "Z" -> "z"]
lower(s) == [k \in 1..Len(s) |-> IF s[k] \in UpperCase THEN LowerOf[s[k]] ELSE s[k]]

from_presetMut(preset) ==
    IF preset \in DOMAIN presets THEN presets[preset] ELSE QRConfig(EmptyDict)
from_preset(preset) ==
    IF lower(preset) \in DOMAIN presets
    THEN presets[lower(preset)]
    ELSE QRConfig(EmptyDict)

to_dictMut(c) ==
    [version |-> c.version, error_correction |-> c.error_correction,
     box_size |-> c.box_size, border |-> c.border, fill_color |-> c.fill_color,
     back_color |-> c.back_color, title |-> c.title, subtitle |-> c.subtitle,
     show_address |-> c.show_address, show_qr_border |-> c.show_qr_border,
     add_logo |-> c.add_logo, logo_path |-> c.logo_path,
     logo_size |-> c.logo_size, custom_css |-> c.custom_css]
to_dict(c) ==
    [version |-> c.version, error_correction |-> c.error_correction,
     box_size |-> c.box_size, border |-> c.border, fill_color |-> c.fill_color,
     back_color |-> c.back_color, title |-> c.title, subtitle |-> c.subtitle,
     show_address |-> c.show_address, show_qr_border |-> c.show_qr_border,
     add_logo |-> c.add_logo, logo_path |-> c.logo_path,
     logo_size |-> c.logo_size, watermark |-> c.watermark,
     custom_css |-> c.custom_css]

from_dict(data) == QRConfig(data)


NoCfg == [absent |-> TRUE]

\* Names a caller may hand to from_preset: the six keys, other spellings of
\* them, and names that are no preset.
PresetArgs ==
    PresetNames \cup
    {<<"P", "r", "o", "f", "e", "s", "s", "i", "o", "n", "a", "l">>,
     <<"M", "i", "n", "i", "m", "a", "l", "i", "s", "t">>,
     <<"D", "A", "R", "K">>,
     <<"G", "R", "A", "D", "I", "E", "N", "T">>,
     <<"B", "u", "s", "i", "n", "e", "s", "S">>,
     <<"P", "R", "E", "M", "I", "U", "M">>,
     <<"n", "e", "o", "n">>,
     <<"d", "a", "r", "k", "e", "r">>,
     <<"d", "a", "r", "k", " ">>,
     <<>>}

\* Values a caller assigns to a field of a loaded configuration
\* (config.title = ..., config.fill_color = ...).
AttrValues ==
    [title |-> {"", "MULTI-WALLET QR"},
     subtitle |-> {"", "Batch Generated"},
     watermark |-> {"", "CONFIDENTIAL"},
     show_address |-> BOOLEAN,
     fill_color |-> {"black", "#8E44AD"},
     logo_path |-> {None, "logo.png"},
     custom_css |-> {EmptyDict, GradientCss,
                     [k \in {"gradient", "gradient_name"} |->
                         IF k = "gradient" THEN TRUE ELSE "ocean"]}]

\* Bound of the number of fields a caller assigns after loading a preset.
MaxOverrides == 2

StylesIdle ==
    /\ preset_arg = <<>>
    /\ cfg = NoCfg
    /\ cfg_dict = NoCfg
    /\ cfg_back = NoCfg
    /\ overridden = {}

StylesInit == StylesIdle

\* config = QRConfig.from_preset(name)
FromPreset ==
    /\ cfg = NoCfg
    /\ \E name \in PresetArgs :
        /\ preset_arg' = name
        /\ cfg' = from_preset(name)
    /\ UNCHANGED <<cfg_dict, cfg_back, overridden, vvars, lvars, gvars, mvars, cvars>>

\* config.<field> = value, by the owner of the configuration
SetAttr ==
    /\ cfg # NoCfg
    /\ cfg_dict = NoCfg
    /\ \E f \in DOMAIN AttrValues : \E v \in AttrValues[f] :
        /\ f \notin overridden
        /\ cfg' = [cfg EXCEPT ![f] = v]
        /\ overridden' = overridden \cup {f}
    /\ Cardinality(overridden) < MaxOverrides
    /\ UNCHANGED <<preset_arg, cfg_dict, cfg_back, vvars, lvars, gvars, mvars, cvars>>

\* config.to_dict()
ToDict ==
    /\ cfg # NoCfg
    /\ cfg_dict = NoCfg
    /\ cfg_dict' = to_dict(cfg)
    /\ UNCHANGED <<preset_arg, cfg, cfg_back, overridden, vvars, lvars, gvars, mvars, cvars>>

\* QRConfig.from_dict(config_dict)
FromDict ==
    /\ cfg_dict # NoCfg
    /\ cfg_back = NoCfg
    /\ cfg_back' = from_dict(cfg_dict)
    /\ UNCHANGED <<preset_arg, cfg, cfg_dict, overridden, vvars, lvars, gvars, mvars, cvars>>

---------------------------------------------------------------------------
(* styles.py: StyleManager                                                 *)

\* d[k] = v on a dict
Put(d, k, v) == [n \in DOMAIN d \cup {k} |-> IF n = k THEN v ELSE d[n]]

\* d.update(other)
Update(d, other) ==
    [n \in DOMAIN d \cup DOMAIN other |-> IF n \in DOMAIN other THEN other[n] ELSE d[n]]

IntFields == {"version", "box_size", "border", "logo_size"}
BoolFields == {"show_address", "show_qr_border", "add_logo"}

\* json.dump of one entry of a to_dict(): an int is written as a number, a
\* bool as true/false, the extension map as an object, None as null and a str
\* as a string
json_value(f, v) ==
    IF f \in IntFields THEN [t |-> "number", v |-> v]
    ELSE IF f \in BoolFields THEN [t |-> "bool", v |-> v]
    ELSE IF f = "custom_css" THEN [t |-> "object", v |-> v]
    ELSE IF v = None THEN [t |-> "null", v |-> None]
    ELSE [t |-> "string", v |-> v]

\* json.load of one value
py_value(j) == IF j.t = "null" THEN None ELSE j.v

\* json.dump(styles_data, f, indent=2)
json_dump(styles_data) ==
    [n \in DOMAIN styles_data |->
        [f \in DOMAIN styles_data[n] |-> json_value(f, styles_data[n][f])]]

\* styles_data = json.load(f)
json_load(doc) ==
    [n \in DOMAIN doc |-> [f \in DOMAIN doc[n] |-> py_value(doc[n][f])]]

\* StyleManager(): self.styles after _load_default_styles
load_default_styles == [n \in PresetNames |-> from_preset(n)]

\* get_style(name): None for a name that is no key
get_style(styles, name) ==
    IF lower(name) \in DOMAIN styles THEN styles[lower(name)] ELSE None

\* add_style(name, config)
add_style(styles, name, config) == Put(styles, lower(name), config)

\* list_styles(), as a set: the order of the keys is left out
list_styles(styles) == DOMAIN styles

\* save_styles(filepath): what is written to the file
save_styles(styles) == json_dump([n \in DOMAIN styles |-> to_dict(styles[n])])

load_stylesMut(styles, doc) ==
    LET styles_data == json_load(doc)
    IN  Update([n \in DOMAIN styles_data |-> from_dict(styles_data[n])], styles)
\* load_styles(filepath): self.styles afterwards
load_styles(styles, doc) ==
    LET styles_data == json_load(doc)
    IN  Update(styles, [n \in DOMAIN styles_data |-> from_dict(styles_data[n])])

\* Bound of the add_style and load_styles calls made before save_styles.
MaxAdds == 2

\* The names handed to add_style: the one of test_style_manager, another
\* spelling of it, a spelling of a default style's name, and a new name.
n_custom == <<"c", "u", "s", "t", "o", "m">>
StyleNameArgs ==
    {n_custom, <<"C", "u", "s", "t", "o", "m">>, <<"D", "A", "R", "K">>,
     <<"N", "e", "o", "n">>}

\* The configurations handed to add_style: the one of test_style_manager, a
\* preset with a non-empty extension map, and one with the fields a command
\* line without --watermark and with --logo leaves (watermark None).
StyleConfigs ==
    {QRConfig([title |-> "CUSTOM WALLET"]),
     presets[n_gradient],
     QRConfig([add_logo |-> TRUE, logo_path |-> "logo.png", watermark |-> None])}

ManagerIdle ==
    /\ mgrA = EmptyDict
    /\ madds = 0
    /\ style_file = EmptyDict
    /\ mgrB = EmptyDict
    /\ mphase = "unused"

\* manager = StyleManager()
ManagerInit ==
    /\ mgrA = load_default_styles
    /\ madds = 0
    /\ style_file = EmptyDict
    /\ mgrB = EmptyDict
    /\ mphase = "adding"

\* manager.add_style(name, config)
AddStyle ==
    /\ mphase = "adding"
    /\ madds < MaxAdds
    /\ \E name \in StyleNameArgs, config \in StyleConfigs :
           mgrA' = add_style(mgrA, name, config)
    /\ madds' = madds + 1
    /\ UNCHANGED <<style_file, mgrB, mphase, vvars, svars, lvars, gvars, cvars>>

\* Style files written by hand or by another program: one style each, under
\* a key that is capitalised, and under keys the manager already holds.
FileKeys == {<<"N", "e", "o", "n">>, <<"D", "a", "r", "k">>, n_custom}
StyleFiles ==
    {json_dump([n \in {key} |-> to_dict(QRConfig([title |-> "FROM FILE"]))]) :
        key \in FileKeys}

\* manager.load_styles(filepath) on such a file
LoadFile ==
    /\ mphase = "adding"
    /\ madds < MaxAdds
    /\ \E doc \in StyleFiles : mgrA' = load_styles(mgrA, doc)
    /\ madds' = madds + 1
    /\ UNCHANGED <<style_file, mgrB, mphase, vvars, svars, lvars, gvars, cvars>>

\* manager.save_styles(temp_file)
SaveStyles ==
    /\ mphase = "adding"
    /\ style_file' = save_styles(mgrA)
    /\ mphase' = "saved"
    /\ UNCHANGED <<mgrA, madds, mgrB, vvars, svars, lvars, gvars, cvars>>

\* new_manager = StyleManager()
NewManager ==
    /\ mphase = "saved"
    /\ mgrB' = load_default_styles
    /\ mphase' = "constructed"
    /\ UNCHANGED <<mgrA, madds, style_file, vvars, svars, lvars, gvars, cvars>>

\* new_manager.load_styles(temp_file)
LoadStyles ==
    /\ mphase = "constructed"
    /\ mgrB' = load_styles(mgrB, style_file)
    /\ mphase' = "loaded"
    /\ UNCHANGED <<mgrA, madds, style_file, vvars, svars, lvars, gvars, cvars>>

---------------------------------------------------------------------------
(* styles.py: Layout                                                       *)

\* Python truthiness of a str-or-None field
Truthy(v) == v \notin {"", None}

TitleExtra == 60
SubtitleExtra == 30
AddressExtra == 80
WatermarkExtra == 30
HeightExtraBase == 40
Padding == 40

height_extraBaseMut(config) ==
    (IF Truthy(config.title) THEN TitleExtra ELSE 0)
    + (IF Truthy(config.subtitle) THEN SubtitleExtra ELSE 0)
    + (IF config.show_address THEN AddressExtra ELSE 0)
    + (IF Truthy(config.watermark) THEN WatermarkExtra ELSE 0)
height_extraMut(config) ==
    HeightExtraBase
    + (IF Truthy(config.title) THEN TitleExtra ELSE 0)
    + (IF Truthy(config.subtitle) THEN SubtitleExtra ELSE 0)
    + (IF config.show_address THEN AddressExtra ELSE 0)
    + (IF Truthy(config.watermark) /\ ~Truthy(config.subtitle)
       THEN WatermarkExtra ELSE 0)
height_extra(config) ==
    HeightExtraBase
    + (IF Truthy(config.title) THEN TitleExtra ELSE 0)
    + (IF Truthy(config.subtitle) THEN SubtitleExtra ELSE 0)
    + (IF config.show_address THEN AddressExtra ELSE 0)
    + (IF Truthy(config.watermark) THEN WatermarkExtra ELSE 0)

LayoutAutoAddressMut(size, config) ==
    LET qr_width  == size[1]
        qr_height == size[2]
        padding   == Padding
        width     == qr_width + padding * 2
        height    == qr_height + padding * 2 + height_extra(config)
        qr_x      == padding
        qr_y      == padding + (IF Truthy(config.title) THEN 60 ELSE 20)
        title_y   == 30
        subtitle_y == title_y + 40
    IN  [width |-> width,
         height |-> height,
         padding |-> padding,
         qr_position |-> <<qr_x, qr_y>>,
         title_position |-> <<padding, title_y>>,
         subtitle_position |-> <<padding, subtitle_y>>,
         address_position |-> <<padding, qr_y + qr_width + 20>>,
         logo_position |-> <<width - padding - 50, 30>>,
         watermark_position |-> <<width - padding - 100, height - 30>>]
LayoutAutoHeightMut(size, config) ==
    LET qr_width  == size[1]
        qr_height == size[2]
        padding   == Padding
        width     == qr_width + padding * 2
        height    == qr_height + height_extra(config)
        qr_x      == padding
        qr_y      == padding + (IF Truthy(config.title) THEN 60 ELSE 20)
        title_y   == 30
        subtitle_y == title_y + 40
    IN  [width |-> width,
         height |-> height,
         padding |-> padding,
         qr_position |-> <<qr_x, qr_y>>,
         title_position |-> <<padding, title_y>>,
         subtitle_position |-> <<padding, subtitle_y>>,
         address_position |-> <<padding, qr_y + qr_height + 20>>,
         logo_position |-> <<width - padding - 50, 30>>,
         watermark_position |-> <<width - padding - 100, height - 30>>]
LayoutAuto(size, config) ==
    LET qr_width  == size[1]
        qr_height == size[2]
        padding   == Padding
        width     == qr_width + padding * 2
        height    == qr_height + padding * 2 + height_extra(config)
        qr_x      == padding
        qr_y      == padding + (IF Truthy(config.title) THEN 60 ELSE 20)
        title_y   == 30
        subtitle_y == title_y + 40
    IN  [width |-> width,
         height |-> height,
         padding |-> padding,
         qr_position |-> <<qr_x, qr_y>>,
         title_position |-> <<padding, title_y>>,
         subtitle_position |-> <<padding, subtitle_y>>,
         address_position |-> <<padding, qr_y + qr_height + 20>>,
         logo_position |-> <<width - padding - 50, 30>>,
         watermark_position |-> <<width - padding - 100, height - 30>>]

\* Side of the QR image qrcode draws for a symbol of the configured version:
\* (17 + 4 * version + 2 * border) modules of box_size pixels.
QRSide(config) == (17 + 4 * config.version + 2 * config.border) * config.box_size

\* Bound of the small QR sides tried next to the presets' real ones.
MaxSide == 11

LayoutSizes ==
    ((0..MaxSide) \X (0..MaxSide))
    \cup {<<QRSide(presets[n]), QRSide(presets[n])>> : n \in PresetNames}

\* The optional elements of a layout, and the configurations tried: the
\* presets, the default, and every combination of the four elements.
Elements == {"title", "subtitle", "show_address", "watermark"}

ElementOn(config, e) ==
    IF e = "show_address" THEN config.show_address ELSE Truthy(config[e])

WithElement(config, e, on) ==
    CASE e = "title"        -> [config EXCEPT !.title = IF on THEN "MY WALLET" ELSE ""]
      [] e = "subtitle"     -> [config EXCEPT !.subtitle = IF on THEN "Scan me" ELSE ""]
      [] e = "show_address" -> [config EXCEPT !.show_address = on]
      [] e = "watermark"    -> [config EXCEPT !.watermark = IF on THEN "DRAFT" ELSE ""]

LayoutConfigs ==
    {presets[n] : n \in PresetNames}
    \cup {WithElement(WithElement(WithElement(WithElement(QRConfig(EmptyDict),
              "title", a), "subtitle", b), "show_address", c), "watermark", d) :
          a \in BOOLEAN, b \in BOOLEAN, c \in BOOLEAN, d \in BOOLEAN}

NoLayout == [absent |-> TRUE]

LayoutIdle ==
    /\ lcfg = NoCfg
    /\ qr_size = <<0, 0>>
    /\ layout = NoLayout
    /\ lprev = NoLayout

LayoutInit ==
    /\ lcfg \in LayoutConfigs
    /\ qr_size \in LayoutSizes
    /\ layout = NoLayout
    /\ lprev = NoLayout

\* layout = Layout.auto(qr_img.size, config)
Auto ==
    /\ layout = NoLayout
    /\ layout' = LayoutAuto(qr_size, lcfg)
    /\ UNCHANGED <<lcfg, qr_size, lprev, vvars, svars, gvars, mvars, cvars>>

\* One more optional element is switched on in the configuration and the
\* layout is computed again for the same QR size.
EnableElement ==
    /\ layout # NoLayout
    /\ \E e \in Elements :
        /\ ~ElementOn(lcfg, e)
        /\ lprev' = [config |-> lcfg, layout |-> layout, element |-> e]
        /\ lcfg' = WithElement(lcfg, e, TRUE)
        /\ layout' = LayoutAuto(qr_size, lcfg')
    /\ UNCHANGED <<qr_size, vvars, svars, gvars, mvars, cvars>>


---------------------------------------------------------------------------
(* cli.py: WalletQRCLI._create_parser, _create_qr_config                   *)

\* The options of the parser that _create_qr_config reads.
Options ==
    {"style", "color", "background", "size", "logo", "logo_size", "title",
     "subtitle", "watermark", "error_correction", "border", "no_address",
     "no_border"}

\* add_argument(..., default=...): what args holds for an option that is not
\* on the command line; None where no default is declared
ParserDefaults ==
    [style |-> n_professional, color |-> "#2E86C1", background |-> "white",
     size |-> 5, logo |-> None, logo_size |-> 100, title |-> None,
     subtitle |-> None, watermark |-> None, error_correction |-> "H",
     border |-> 4, no_address |-> FALSE, no_border |-> FALSE]

\* parser.parse_args(): the namespace for a command line carrying the options
\* in DOMAIN given
parse_args(given) ==
    [o \in Options |-> IF o \in DOMAIN given THEN given[o] ELSE ParserDefaults[o]]

\* size_map, as (version, box_size) for the levels 1..10
size_map ==
    <<<<2, 8>>, <<3, 10>>, <<4, 12>>, <<5, 14>>, <<6, 16>>, <<7, 18>>,
      <<8, 20>>, <<9, 22>>, <<10, 24>>, <<12, 26>>>>

\* size_map.get(self.args.size, (6, 16))
size_map_get(size) == IF size \in DOMAIN size_map THEN size_map[size] ELSE <<6, 16>>

\* {"gradient": True, "gradient_name": "sunset"}
CliGradientCss == [gradient |-> TRUE, gradient_name |-> "sunset"]

\* _create_qr_config(): the preset, then the assignments of lines 324-350
create_qr_config(args) ==
    LET config == from_preset(args.style)
    IN  [version |-> size_map_get(args.size)[1],
         error_correction |-> args.error_correction,
         box_size |-> size_map_get(args.size)[2],
         border |-> args.border,
         fill_color |-> args.color,
         back_color |-> args.background,
         title |-> IF Truthy(args.title) THEN args.title ELSE config.title,
         subtitle |-> IF Truthy(args.subtitle) THEN args.subtitle ELSE config.subtitle,
         show_address |-> ~args.no_address,
         show_qr_border |-> ~args.no_border,
         add_logo |-> Truthy(args.logo),
         logo_path |-> args.logo,
         logo_size |-> args.logo_size,
         watermark |-> args.watermark,
         custom_css |-> IF args.style = n_gradient THEN CliGradientCss
                        ELSE config.custom_css]

\* Bound of the options, other than --style, on one command line.
MaxGiven == 2

\* The value each option is given when it is on the command line.
GivenValue ==
    [color |-> "#FF6B6B", background |-> "#1C2833", size |-> 3,
     logo |-> "logo.png", logo_size |-> 120, title |-> "MY WALLET",
     subtitle |-> "Scan me", watermark |-> "CONFIDENTIAL",
     error_correction |-> "L", border |-> 2, no_address |-> TRUE,
     no_border |-> TRUE]

\* The command lines tried: --style absent or one of its choices, and up to
\* MaxGiven other options.
CommandLines ==
    LET others == {S \in SUBSET (Options \ {"style"}) : Cardinality(S) <= MaxGiven}
        plain  == {[o \in S |-> GivenValue[o]] : S \in others}
    IN  plain \cup {Put(g, "style", n) : g \in plain, n \in PresetNames}

CliIdle ==
    /\ argv = EmptyDict
    /\ cli_config = NoCfg

CliInit ==
    /\ argv \in CommandLines
    /\ cli_config = NoCfg

\* config = self._create_qr_config()
CreateQrConfig ==
    /\ cli_config = NoCfg
    /\ cli_config' = create_qr_config(parse_args(argv))
    /\ UNCHANGED <<argv, vvars, svars, lvars, gvars, mvars>>

---------------------------------------------------------------------------
(* generator.py: QRGenerator                                               *)

\* An exception: its class and str(e), the latter as the list of the text
\* fragments an f-string put together, outermost first; root is the class of
\* the exception the chain of re-raises started from.
Exc(type, text) == [type |-> type, msg |-> <<text>>, root |-> type]
NoExc == [type |-> None, msg |-> <<>>, root |-> None]

\* raise GenerationError(f"<prefix>: {e}")
WrapMut(prefix, e) == e
Wrap(prefix, e) ==
    [type |-> "GenerationError", msg |-> <<prefix>> \o e.msg, root |-> e.root]

IsSuffix(s, full) ==
    Len(s) <= Len(full) /\ SubSeq(full, Len(full) - Len(s) + 1, Len(full)) = s

\* Colour strings: the ones the presets and callers use, and two the imaging
\* backend rejects.  "#RRGGBB" strings and names are both accepted by it.
HexColors ==
    {"#2E86C1", "#27AE60", "#1C2833", "#FF6B6B", "#2C3E50", "#F39C12",
     "#FEF9E7", "#8E44AD"}
NamedColors == {"white", "black"}
MalformedHashColors == {"#12"}
UnknownColors == {"notacolor"}

ValidColor(c) == c \in HexColors \cup NamedColors
startswith_hash(c) == c \in HexColors \cup MalformedHashColors
\* [int(border_color[i:i+2], 16) for i in (1, 3, 5)] raises unless the
\* characters at 1..6 are three pairs of hex digits
ParsesAsRRGGBB(c) == c \in HexColors

\* The encoder's capacity: a symbol of version v holds CapacityPerVersion * v
\* characters; versions run from 1 to QRMaxVersion.  The real table belongs to
\* the qrcode library; only its being increasing and bounded matters here.
CapacityPerVersion == 3
QRMaxVersion == 40
Capacity(v) == CapacityPerVersion * v

\* qr.make(fit=True): the smallest version >= the configured one that holds
\* the data, 0 when none does (DataOverflowError)
best_fit(data, start) ==
    LET ok == {v \in start..QRMaxVersion : Len(data) <= Capacity(v)}
    IN  IF ok = {} THEN 0 ELSE CHOOSE v \in ok : \A u \in ok : v <= u

\* qrcode.QRCode(version=, error_correction=, box_size=, border=)
QRCodeCtor(config) ==
    IF config.box_size <= 0 THEN Exc("ValueError", "Invalid box size")
    ELSE IF config.border < 0 THEN Exc("ValueError", "Invalid border value")
    ELSE IF config.version < 1 \/ config.version > QRMaxVersion
         THEN Exc("ValueError", "Invalid version")
    ELSE NoExc

\* qr.add_data(data); qr.make(fit=True)
QRMake(data, config) ==
    IF QRCodeCtor(config) # NoExc THEN QRCodeCtor(config)
    ELSE IF best_fit(data, config.version) = 0
         THEN Exc("DataOverflowError", "Data too large")
    ELSE NoExc

ModuleCount(data, config) == 17 + 4 * best_fit(data, config.version)

Image(side, logo) == [error |-> NoExc, size |-> <<side, side>>, logo |-> logo]
Raised(e) == [error |-> e, size |-> <<0, 0>>, logo |-> FALSE]

\* _create_base_qr(data)
create_base_qr(data, config) ==
    LET e == IF QRMake(data, config) # NoExc THEN QRMake(data, config)
             ELSE IF ~ValidColor(config.fill_color) \/ ~ValidColor(config.back_color)
                  THEN Exc("ValueError", "unknown color specifier")
             ELSE NoExc
    IN  IF e # NoExc
        THEN Raised(Wrap("Failed to create base QR code: ", e))
        ELSE Image((ModuleCount(data, config) + 2 * config.border) * config.box_size,
                   FALSE)

\* The names bound when line 156 is evaluated: the locals of
\* _create_gradient_qr and the module's globals.
GradientScope ==
    {"self", "data", "qr", "matrix", "size", "img", "draw", "gradient_name",
     "gradient_colors", "y", "x", "color_idx", "color", "x_pos", "y_pos",
     "qrcode", "Image", "ImageDraw", "ImageFont", "ImageFilter", "os",
     "random", "np", "QRConfig", "Layout", "ColorScheme", "GenerationError"}
\* the names the arguments of draw.rectangle read, in evaluation order
RectangleNames == <<"x_pos", "y_pos", "x_pos", "self", "y_pos", "self_config", "color", "color">>

\* get_matrix() includes the border; the corner of the finder pattern, at
\* (border, border), is dark in every symbol, so the loop body runs.
DrawModules ==
    LET unbound == {k \in 1..Len(RectangleNames) : RectangleNames[k] \notin GradientScope}
    IN  IF unbound = {} THEN NoExc
        ELSE Exc("NameError", "name is not defined")

\* _create_gradient_qr(data)
create_gradient_qr(data, config) ==
    LET e == IF QRMake(data, config) # NoExc THEN QRMake(data, config)
             ELSE IF ~ValidColor(config.back_color)
                  THEN Exc("ValueError", "unknown color specifier")
             ELSE DrawModules
        n == ModuleCount(data, config) + 2 * config.border
    IN  IF e # NoExc
        THEN Raised(Wrap("Failed to create gradient QR code: ", e))
        ELSE Image(n * config.box_size + 2 * config.border * config.box_size, FALSE)

is_gradient(config) == "gradient" \in DOMAIN config.custom_css

add_logoMut(img, config, file) ==
    IF ~config.add_logo \/ ~Truthy(config.logo_path) THEN img
    ELSE IF file = "missing" THEN img
    ELSE [img EXCEPT !.logo = TRUE]
\* _add_logo(qr_img): never raises
add_logo(img, config, file) ==
    IF ~config.add_logo \/ ~Truthy(config.logo_path) THEN img
    ELSE IF file = "missing" THEN img
    ELSE IF file = "unreadable" THEN img
    ELSE [img EXCEPT !.logo = TRUE]

\* _create_background(size, style)
create_background(config) ==
    IF is_gradient(config) THEN NoExc
    ELSE IF startswith_hash(config.back_color) /\ ~ValidColor(config.back_color)
         THEN Exc("ValueError", "unknown color specifier")
    ELSE NoExc

\* _add_emboss_effect(img)
add_emboss_effect(config) ==
    IF ~config.show_qr_border THEN NoExc
    ELSE IF ~ParsesAsRRGGBB(config.fill_color)
         THEN Exc("ValueError", "invalid literal for int() with base 16")
    ELSE NoExc

\* the title, subtitle and address blocks of generate()
draw_texts(config) ==
    IF Truthy(config.title) /\ (~ValidColor(config.fill_color) \/ ~ValidColor(config.back_color))
    THEN Exc("ValueError", "unknown color specifier")
    ELSE IF config.show_address /\ ~ValidColor(config.fill_color)
         THEN Exc("ValueError", "unknown color specifier")
    ELSE NoExc

\* What generate() puts on the canvas, in drawing order.  box is the rectangle
\* (x0, y0, x1, y1) drawn or covered; for a text it is the anchor, twice, or,
\* for a centred line, the span it is centred in.
Op(op, box, text) == [op |-> op, box |-> box, text |-> text]

\* _add_emboss_effect: rect, computed from the size of the image it is given
emboss_rect(config, size) ==
    <<config.border * config.box_size - 15,
      config.border * config.box_size - 15,
      size[1] - config.border * config.box_size + 15,
      size[2] - config.border * config.box_size + 15>>

\* final_img.paste(qr_img, layout.qr_position): the rectangle the QR covers
qr_block(l, size) ==
    <<l.qr_position[1], l.qr_position[2],
      l.qr_position[1] + size[1], l.qr_position[2] + size[2]>>

\* display_addr = f"{data[:15]}...{data[-15:]}" if len(data) > 30 else data
display_addr(data) ==
    IF Len(data) > 30
    THEN SubSeq(data, 1, 15) \o <<".", ".", ".">> \o SubSeq(data, Len(data) - 14, Len(data))
    ELSE data

chunksMut(data) ==
    [k \in 1..((Len(data) + 49) \div 50) |->
        SubSeq(data, 50 * (k - 1) + 1,
               IF 50 * k - 1 < Len(data) THEN 50 * k - 1 ELSE Len(data))]
\* chunks = [data[i:i+50] for i in range(0, len(data), 50)]
chunks(data) ==
    [k \in 1..((Len(data) + 49) \div 50) |->
        SubSeq(data, 50 * (k - 1) + 1,
               IF 50 * k < Len(data) THEN 50 * k ELSE Len(data))]

\* the draw.text calls of the title, subtitle and address blocks
text_ops(data, config, l) ==
    LET addr_y == l.address_position[2] + 25
        full_addr_y == addr_y + 30
        at(x, y) == <<x, y, x, y>>
    IN  (IF Truthy(config.title)
         THEN <<Op("title", <<0, l.title_position[2], l.width, l.title_position[2]>>,
                   config.title)>>
         ELSE <<>>)
        \o (IF Truthy(config.subtitle)
            THEN <<Op("subtitle",
                      <<0, l.subtitle_position[2], l.width, l.subtitle_position[2]>>,
                      config.subtitle)>>
            ELSE <<>>)
        \o (IF config.show_address
            THEN <<Op("label", at(l.address_position[1], l.address_position[2]),
                      "Wallet Address:"),
                   Op("display_addr", at(l.padding, addr_y), display_addr(data))>>
                 \o (IF Len(data) > 50
                     THEN [k \in 1..Len(chunks(data)) |->
                              Op("chunk", at(l.padding, full_addr_y + (k - 1) * 15),
                                 chunks(data)[k])]
                     ELSE <<Op("chunk", at(l.padding, full_addr_y), data)>>)
            ELSE <<>>)

\* _add_watermark(img, text): the text repeated along the middle line
add_watermark(size, text) ==
    Op("watermark", <<0 - size[2], size[2] \div 2, size[1] + size[2], size[2] \div 2>>, text)

DigitSeq == <<"0", "1", "2", "3", "4", "5", "6", "7", "8", "9">>
HexSeq == DigitSeq \o <<"a", "b", "c", "d", "e", "f">>

\* str(n) for n >= 0
RECURSIVE decimal(_)
decimal(n) ==
    IF n < 10 THEN <<DigitSeq[n + 1]>>
    ELSE Append(decimal(n \div 10), DigitSeq[(n % 10) + 1])

\* f"{index:03d}"
format_03d(index) == Rep("0", 3 - Len(decimal(index))) \o decimal(index)

\* re.sub(r'[^\w\-]', '_', style)
safe_style(style) ==
    [k \in 1..Len(style) |->
        IF style[k] \in LowerCase \cup UpperCase \cup Digits \cup {"_", "-"}
        THEN style[k] ELSE "_"]

\* hashlib.md5(address.encode()).hexdigest()[:8]: eight hex digits, a function
\* of the address alone that is not one-to-one
HashBuckets == 7
short_hash(a) == Rep("0", 7) \o <<HexSeq[(Len(a) % HashBuckets) + 1]>>

generate_filenameMut(a, style, index) ==
    <<"q", "r", "_">> \o safe_style(style) \o <<"_">> \o short_hash(a)
    \o <<".", "p", "n", "g">>
\* generate_filename(address, style, index), index given
generate_filename(a, style, index) ==
    <<"q", "r", "_">> \o format_03d(index) \o <<"_">> \o safe_style(style) \o <<"_">>
    \o short_hash(a) \o <<".", "p", "n", "g">>

\* the style tag generate_batch hands to generate_filename
n_batch == <<"b", "a", "t", "c", "h">>


\* Bounds of the batch: the length of the list and, through Oversize, the data.
MaxBatch == 3

\* a string no symbol version holds
Oversize == Rep("9", Capacity(QRMaxVersion) + 1)

DataItems == {TestEthereum, TestTon, Oversize}

BatchInputs == UNION {[1..n -> DataItems] : n \in 0..MaxBatch}

\* "ok"; "cannot_create": os.makedirs raises; "read_only": files cannot be
\* written into it; "volatile": a written file is gone before it is read back
DirStates == {"ok", "cannot_create", "read_only", "volatile"}

\* The configurations a generator is built with: QRConfig(), the presets,
\* the invalid one of test_invalid_config, a preset with a symbolic foreground
\* and the border on, and a preset with a logo path.
GenConfigs ==
    {QRConfig(EmptyDict)}
    \cup {presets[n] : n \in PresetNames}
    \cup {QRConfig([version |-> 1, box_size |-> 0]),
          [presets[n_dark] EXCEPT !.back_color = "notacolor"],
          [presets[n_minimalist] EXCEPT !.show_qr_border = TRUE],
          [presets[n_business] EXCEPT !.logo_path = "logo.png"]}

NoImage == Raised(NoExc)
NoPath == <<>>

GenIdle ==
    /\ selfconfig = NoCfg
    /\ addresses = <<>>
    /\ callback = "none"
    /\ dir_state = "ok"
    /\ logo_file = "missing"
    /\ pc = "unused"
    /\ i = 0
    /\ output_path = NoPath
    /\ qr_img = NoImage
    /\ final_size = <<0, 0>>
    /\ stages = <<>>
    /\ canvas = <<>>
    /\ exc = NoExc
    /\ cause = NoExc
    /\ results = <<>>
    /\ progress_calls = <<>>
    /\ outcomes = <<>>
    /\ files = {}
    /\ printed = <<>>

GenInit ==
    /\ selfconfig \in GenConfigs
    /\ addresses \in BatchInputs
    /\ callback \in {"none", "ok", "raises"}
    /\ dir_state \in DirStates
    /\ logo_file \in {"missing", "unreadable", "ok"}
    /\ (selfconfig.logo_path = None => logo_file = "missing")
    /\ pc = "call"
    /\ i = 0
    /\ output_path = NoPath
    /\ qr_img = NoImage
    /\ final_size = <<0, 0>>
    /\ stages = <<>>
    /\ canvas = <<>>
    /\ exc = NoExc
    /\ cause = NoExc
    /\ results = <<>>
    /\ progress_calls = <<>>
    /\ outcomes = <<>>
    /\ files = {}
    /\ printed = <<>>

\* Data for the address block: strings of the lengths at which the display
\* form and the line splitting change, with no two neighbouring characters
\* equal, and one string too long to encode.
TextLengths == {1, 30, 31, 50, 51, 100, 101, 120}
Cycled(n) == [k \in 1..n |-> HexSeq[((k - 1) % 16) + 1]]
TextData == {Cycled(n) : n \in TextLengths} \cup {Oversize}

\* QRConfig(), a preset with every element on, and one without address text
TextConfigs == {QRConfig(EmptyDict), presets[n_premium], presets[n_minimalist]}

\* generator.generate(data, path) as the only item of a batch
TextInit ==
    /\ selfconfig \in TextConfigs
    /\ addresses \in {<<d>> : d \in TextData}
    /\ callback \in {"none", "ok", "raises"}
    /\ dir_state \in DirStates
    /\ logo_file = "missing"
    /\ pc = "call"
    /\ i = 0
    /\ output_path = NoPath
    /\ qr_img = NoImage
    /\ final_size = <<0, 0>>
    /\ stages = <<>>
    /\ canvas = <<>>
    /\ exc = NoExc
    /\ cause = NoExc
    /\ results = <<>>
    /\ progress_calls = <<>>
    /\ outcomes = <<>>
    /\ files = {}
    /\ printed = <<>>

Rest == <<vvars, svars, lvars, genv, mvars, cvars>>

\* A stage of generate() ends: either it raised e, and control goes to the
\* handler of line 441, or it completed and the next statement runs.
StageEnds(name, e, next) ==
    IF e # NoExc
    THEN /\ exc' = e
         /\ cause' = Exc(e.root, e.msg[Len(e.msg)])
         /\ pc' = "generate_except"
         /\ UNCHANGED stages
    ELSE /\ pc' = next
         /\ stages' = Append(stages, name)
         /\ UNCHANGED <<exc, cause>>

\* generate_batch: os.makedirs(output_dir, exist_ok=True); results = []
MakeDirs ==
    /\ pc = "call"
    /\ IF dir_state = "cannot_create"
       THEN pc' = "batch_raised" /\ exc' = Exc("OSError", "Permission denied")
       ELSE pc' = "for" /\ UNCHANGED exc
    /\ UNCHANGED <<i, output_path, qr_img, final_size, stages, canvas, cause, gout, Rest>>

\* for i, address in enumerate(addresses, 1): filename, output_path; at the
\* end of the list, return results
ForNext ==
    /\ pc = "for"
    /\ IF i < Len(addresses)
       THEN /\ i' = i + 1
            /\ output_path' = generate_filename(addresses[i + 1], n_batch, i + 1)
            /\ pc' = "encode"
       ELSE /\ pc' = "returned"
            /\ UNCHANGED <<i, output_path>>
    /\ qr_img' = NoImage
    /\ final_size' = <<0, 0>>
    /\ stages' = <<>>
    /\ canvas' = <<>>
    /\ exc' = NoExc
    /\ cause' = NoExc
    /\ UNCHANGED <<gout, Rest>>

EncodeMut ==
    /\ pc = "encode"
    /\ LET img == IF is_gradient(selfconfig)
                  THEN create_gradient_qr(addresses[i], selfconfig)
                  ELSE create_base_qr(addresses[i], selfconfig)
       IN  /\ qr_img' = img
           /\ StageEnds("encode", img.error, "logo")
    /\ files' = files \cup {output_path}
    /\ UNCHANGED <<i, output_path, final_size, canvas, results, progress_calls,
                   outcomes, printed, Rest>>
\* generate: qr_img = self._create_gradient_qr(data) or self._create_base_qr(data)
Encode ==
    /\ pc = "encode"
    /\ LET img == IF is_gradient(selfconfig)
                  THEN create_gradient_qr(addresses[i], selfconfig)
                  ELSE create_base_qr(addresses[i], selfconfig)
       IN  /\ qr_img' = img
           /\ StageEnds("encode", img.error, "logo")
    /\ UNCHANGED <<i, output_path, final_size, canvas, gout, Rest>>

LogoMut ==
    /\ pc = "logo"
    /\ qr_img' = IF selfconfig.add_logo THEN add_logo(qr_img, selfconfig, logo_file) ELSE qr_img
    /\ selfconfig' = IF selfconfig.add_logo /\ ~qr_img'.logo
                     THEN [selfconfig EXCEPT !.add_logo = FALSE]
                     ELSE selfconfig
    /\ StageEnds("logo", NoExc, "layout")
    /\ UNCHANGED <<i, output_path, final_size, canvas, gout, vvars, svars, lvars,
                   addresses, callback, dir_state, logo_file, mvars, cvars>>
\* generate: if self.config.add_logo: qr_img = self._add_logo(qr_img)
Logo ==
    /\ pc = "logo"
    /\ qr_img' = IF selfconfig.add_logo THEN add_logo(qr_img, selfconfig, logo_file) ELSE qr_img
    /\ StageEnds("logo", NoExc, "layout")
    /\ UNCHANGED <<i, output_path, final_size, canvas, gout, Rest>>

BackgroundMut ==
    /\ pc = "layout"
    /\ final_size' = <<LayoutAuto(qr_img.size, selfconfig).width,
                       LayoutAuto(qr_img.size, selfconfig).height + 15 * Len(results)>>
    /\ StageEnds("background", create_background(selfconfig), "emboss")
    /\ canvas' = IF create_background(selfconfig) = NoExc
                 THEN <<Op("background", <<0, 0, final_size'[1], final_size'[2]>>, "")>>
                 ELSE canvas
    /\ UNCHANGED <<i, output_path, qr_img, gout, Rest>>
\* generate: layout = Layout.auto(...); final_img = self._create_background(...)
Background ==
    /\ pc = "layout"
    /\ final_size' = <<LayoutAuto(qr_img.size, selfconfig).width,
                       LayoutAuto(qr_img.size, selfconfig).height>>
    /\ StageEnds("background", create_background(selfconfig), "emboss")
    /\ canvas' = IF create_background(selfconfig) = NoExc
                 THEN <<Op("background", <<0, 0, final_size'[1], final_size'[2]>>, "")>>
                 ELSE canvas
    /\ UNCHANGED <<i, output_path, qr_img, gout, Rest>>

\* generate: if self.config.show_qr_border: final_img = self._add_emboss_effect(final_img)
Emboss ==
    /\ pc = "emboss"
    /\ IF selfconfig.show_qr_border
       THEN /\ StageEnds("emboss", add_emboss_effect(selfconfig), "paste")
            /\ canvas' = IF add_emboss_effect(selfconfig) = NoExc
                         THEN Append(canvas, Op("emboss", emboss_rect(selfconfig, final_size), ""))
                         ELSE canvas
       ELSE pc' = "paste" /\ UNCHANGED <<stages, canvas, exc, cause>>
    /\ UNCHANGED <<i, output_path, qr_img, final_size, gout, Rest>>

\* generate: final_img.paste(qr_img, layout.qr_position)
Paste ==
    /\ pc = "paste"
    /\ StageEnds("paste", NoExc, "text")
    /\ canvas' = Append(canvas, Op("paste", qr_block(LayoutAuto(qr_img.size, selfconfig), qr_img.size), ""))
    /\ UNCHANGED <<i, output_path, qr_img, final_size, gout, Rest>>

\* generate: the title, subtitle and wallet-address blocks
Text ==
    /\ pc = "text"
    /\ StageEnds("text", draw_texts(selfconfig), "watermark")
    /\ canvas' = IF draw_texts(selfconfig) = NoExc
                 THEN canvas \o text_ops(addresses[i], selfconfig,
                                         LayoutAuto(qr_img.size, selfconfig))
                 ELSE canvas
    /\ UNCHANGED <<i, output_path, qr_img, final_size, gout, Rest>>

WatermarkMut ==
    /\ pc = "watermark"
    /\ pc' = "save"
    /\ UNCHANGED <<stages, canvas, exc, cause>>
    /\ UNCHANGED <<i, output_path, qr_img, final_size, gout, Rest>>
\* generate: if self.config.watermark: final_img = self._add_watermark(...)
Watermark ==
    /\ pc = "watermark"
    /\ IF Truthy(selfconfig.watermark)
       THEN /\ StageEnds("watermark", NoExc, "save")
            /\ canvas' = Append(canvas, add_watermark(final_size, selfconfig.watermark))
       ELSE pc' = "save" /\ UNCHANGED <<stages, canvas, exc, cause>>
    /\ UNCHANGED <<i, output_path, qr_img, final_size, gout, Rest>>

\* generate: final_img.save(output_path, quality=95, optimize=True)
Save ==
    /\ pc = "save"
    /\ IF dir_state = "read_only"
       THEN /\ StageEnds("save", Exc("PermissionError", "Permission denied"), "getsize")
            /\ UNCHANGED files
       ELSE /\ StageEnds("save", NoExc, "getsize")
            /\ files' = IF dir_state = "volatile" THEN files \ {output_path}
                        ELSE files \cup {output_path}
    /\ UNCHANGED <<i, output_path, qr_img, final_size, canvas, results, progress_calls,
                   outcomes, printed, Rest>>

\* generate: file_size = os.path.getsize(output_path)
GetSize ==
    /\ pc = "getsize"
    /\ IF output_path \in files
       THEN StageEnds("getsize", NoExc, "generate_return")
       ELSE StageEnds("getsize", Exc("FileNotFoundError", "No such file or directory"),
                      "generate_return")
    /\ UNCHANGED <<i, output_path, qr_img, final_size, canvas, gout, Rest>>

\* How a generate call ended: what it raised, the stages it completed, what
\* it drew, the QR image it held, its output path and whether the file exists.
Outcome(raised) ==
    [index |-> i, raised |-> raised, cause |-> cause, stages |-> stages,
     canvas |-> canvas, qr_img |-> qr_img, path |-> output_path,
     file |-> output_path \in files]

\* generate: return {...}; generate_batch: results.append(result)
GenerateReturn ==
    /\ pc = "generate_return"
    /\ LET result == [filepath |-> output_path,
                      dimensions |-> final_size,
                      address |-> addresses[i],
                      style |-> IF is_gradient(selfconfig) THEN "gradient" ELSE "standard"]
       IN  /\ results' = Append(results, result)
           /\ outcomes' = Append(outcomes, Outcome(NoExc))
    /\ pc' = "callback"
    /\ UNCHANGED <<i, output_path, qr_img, final_size, stages, canvas, exc, cause,
                   progress_calls, files, printed, Rest>>

\* generate: except Exception as e: raise GenerationError(f"Failed to generate QR code: {e}")
GenerateExcept ==
    /\ pc = "generate_except"
    /\ exc' = Wrap("Failed to generate QR code: ", exc)
    /\ outcomes' = Append(outcomes, Outcome(exc'))
    /\ pc' = "batch_except"
    /\ UNCHANGED <<i, output_path, qr_img, final_size, stages, canvas, cause, results,
                   progress_calls, files, printed, Rest>>

CallbackMut ==
    /\ pc = "callback"
    /\ IF callback = "none"
       THEN pc' = "for" /\ UNCHANGED <<progress_calls, exc>>
       ELSE /\ progress_calls' =
                   Append(progress_calls, <<i, Len(addresses), addresses[i]>>)
            /\ IF callback = "raises"
               THEN pc' = "batch_raised" /\ exc' = Exc("RuntimeError", "callback failed")
               ELSE pc' = "for" /\ UNCHANGED exc
    /\ UNCHANGED <<i, output_path, qr_img, final_size, stages, canvas, cause, results,
                   outcomes, files, printed, Rest>>
\* generate_batch: if progress_callback: progress_callback(i, total, address)
Callback ==
    /\ pc = "callback"
    /\ IF callback = "none"
       THEN pc' = "for" /\ UNCHANGED <<progress_calls, exc>>
       ELSE /\ progress_calls' =
                   Append(progress_calls, <<i, Len(addresses), addresses[i]>>)
            /\ IF callback = "raises"
               THEN pc' = "batch_except" /\ exc' = Exc("RuntimeError", "callback failed")
               ELSE pc' = "for" /\ UNCHANGED exc
    /\ UNCHANGED <<i, output_path, qr_img, final_size, stages, canvas, cause, results,
                   outcomes, files, printed, Rest>>

BatchExceptMut ==
    /\ pc = "batch_except"
    /\ printed' = Append(printed, i)
    /\ pc' = "returned"
    /\ UNCHANGED <<i, output_path, qr_img, final_size, stages, canvas, exc, cause,
                   results, progress_calls, outcomes, files, Rest>>
\* generate_batch: except Exception as e: print(...), then the next address
BatchExcept ==
    /\ pc = "batch_except"
    /\ printed' = Append(printed, i)
    /\ pc' = "for"
    /\ UNCHANGED <<i, output_path, qr_img, final_size, stages, canvas, exc, cause,
                   results, progress_calls, outcomes, files, Rest>>

---------------------------------------------------------------------------
(* Specifications                                                          *)

Init == ValidateIdle /\ StylesIdle /\ LayoutIdle /\ GenInit /\ ManagerIdle /\ CliIdle

Next ==
    \/ MakeDirs
    \/ ForNext
    \/ Encode
    \/ Logo
    \/ Background
    \/ Emboss
    \/ Paste
    \/ Text
    \/ Watermark
    \/ Save
    \/ GetSize
    \/ GenerateReturn
    \/ GenerateExcept
    \/ Callback
    \/ BatchExcept

Spec == Init /\ [][Next]_vars

InitValidate == ValidateInit /\ StylesIdle /\ LayoutIdle /\ GenIdle /\ ManagerIdle /\ CliIdle
NextValidate == Validate
SpecValidate == InitValidate /\ [][NextValidate]_vars

InitStyles == ValidateIdle /\ StylesInit /\ LayoutIdle /\ GenIdle /\ ManagerIdle /\ CliIdle
NextStyles == FromPreset \/ SetAttr \/ ToDict \/ FromDict
SpecStyles == InitStyles /\ [][NextStyles]_vars

InitLayout == ValidateIdle /\ StylesIdle /\ LayoutInit /\ GenIdle /\ ManagerIdle /\ CliIdle
NextLayout == Auto \/ EnableElement
SpecLayout == InitLayout /\ [][NextLayout]_vars

InitManager ==
    ValidateIdle /\ StylesIdle /\ LayoutIdle /\ GenIdle /\ ManagerInit /\ CliIdle
NextManager == AddStyle \/ LoadFile \/ SaveStyles \/ NewManager \/ LoadStyles
SpecManager == InitManager /\ [][NextManager]_vars

InitText == ValidateIdle /\ StylesIdle /\ LayoutIdle /\ TextInit /\ ManagerIdle /\ CliIdle
SpecText == InitText /\ [][Next]_vars

InitCli ==
    ValidateIdle /\ StylesIdle /\ LayoutIdle /\ GenIdle /\ ManagerIdle /\ CliInit
NextCli == CreateQrConfig
SpecCli == InitCli /\ [][NextCli]_vars


---------------------------------------------------------------------------
(* Claims                                                                  *)

Succeeded == {k \in 1..Len(outcomes) : outcomes[k].raised = NoExc}

\* the index of the j-th call that succeeded
NthSucceeded(j) ==
    CHOOSE k \in Succeeded : Cardinality({h \in Succeeded : h < k}) = j - 1

\* C1: generate_batch attempts every item in input order and, when the output
\* directory can be created, returns normally; the list it returns holds
\* exactly the items whose generate() succeeded, in input order.
C1_BatchReturnsSuccessesInOrder ==
    /\ dir_state # "cannot_create" => pc # "batch_raised"
    /\ pc \notin {"returned", "batch_raised"} => ENABLED Next
    /\ \A k \in 1..Len(outcomes) : outcomes[k].index = k
    /\ pc = "returned" =>
        /\ Len(outcomes) = Len(addresses)
        /\ Len(results) = Cardinality(Succeeded)
        /\ \A j \in 1..Len(results) :
            /\ results[j].address = addresses[NthSucceeded(j)]
            /\ results[j].filepath =
                   generate_filename(addresses[NthSucceeded(j)], n_batch, NthSucceeded(j))

\* a batch of three returned two results: the middle item failed
C1_Witness ==
    /\ pc = "returned"
    /\ Len(addresses) = 3
    /\ Succeeded = {1, 3}
    /\ Len(results) = 2
    /\ results[2].address = addresses[3]

\* C2: with a callback supplied, generate_batch invokes it exactly once per
\* attempted item, failed or not, with (1-based index, total, data string).
C2_CallbackOncePerAttemptedItem ==
    (pc = "returned" /\ callback = "ok") =>
        /\ Len(progress_calls) = Len(addresses)
        /\ \A k \in 1..Len(progress_calls) :
               progress_calls[k] = <<k, Len(addresses), addresses[k]>>

\* C3: whatever a stage of generate() raises reaches the caller as a
\* GenerationError whose message ends with the message of the cause.
C3_OnlyGenerationErrorEscapes ==
    \A k \in 1..Len(outcomes) :
        outcomes[k].raised # NoExc =>
            /\ outcomes[k].raised.type = "GenerationError"
            /\ outcomes[k].cause # NoExc
            /\ IsSuffix(outcomes[k].cause.msg, outcomes[k].raised.msg)

\* an unwritable output path surfaced as a GenerationError
C3_Witness ==
    \E k \in 1..Len(outcomes) :
        /\ outcomes[k].cause.type = "PermissionError"
        /\ outcomes[k].raised.type = "GenerationError"
        /\ "save" \notin {outcomes[k].stages[j] : j \in 1..Len(outcomes[k].stages)}

\* C4: for QRConfig() and the presets professional, minimalist, dark and
\* gradient, generate() on the test address returns and leaves the file.
C4_TestedStylesRender ==
    \A k \in 1..Len(outcomes) :
        ( /\ selfconfig \in {QRConfig(EmptyDict), presets[n_professional],
                             presets[n_minimalist], presets[n_dark],
                             presets[n_gradient]}
          /\ addresses[outcomes[k].index] \in {TestTon, TestEthereum}
          /\ dir_state = "ok" )
        => (outcomes[k].raised = NoExc /\ outcomes[k].file)

ClaimedOrder == <<"bitcoin", "ethereum", "litecoin", "solana", "base64", "generic">>

Matching(s) == {k \in 1..Len(ClaimedOrder) : re_match(ClaimedOrder[k], s)}

C6_ShortIsInvalid ==
    (verdict # NoVerdict /\ Len(address) < 10) =>
        /\ ~verdict.valid
        /\ verdict.type = "invalid"
        /\ verdict.consulted = <<>>

\* nine characters that the generic pattern would have accepted
C6_Witness ==
    /\ verdict.type = "invalid"
    /\ Len(address) = 9
    /\ MatchGeneric(address)

IsEthereumShape(a) ==
    /\ Len(a) = 42
    /\ a[1] = "0" /\ a[2] = "x"
    /\ \A k \in 3..42 : a[k] \in HexDigits

\* C7: "0x" followed by exactly 40 hex digits is classified (true, "ethereum").
C7_EthereumShape ==
    (verdict # NoVerdict /\ IsEthereumShape(address)) =>
        (verdict.valid /\ verdict.type = "ethereum")

\* an address with upper-case hex digits was classified ethereum
C7_Witness ==
    /\ IsEthereumShape(address)
    /\ \E k \in 3..42 : address[k] \in UpperCase
    /\ verdict.valid /\ verdict.type = "ethereum"
    /\ verdict.consulted = <<"bitcoin", "ethereum">>

\* C8: for each of the six presets from_dict(to_dict(config)) equals config on
\* every field.
C8_PresetRoundTrip ==
    (cfg_back # NoCfg /\ overridden = {} /\ lower(preset_arg) \in PresetNames) =>
        /\ DOMAIN cfg_back = Fields
        /\ \A f \in Fields : cfg_back[f] = cfg[f]

\* the premium preset went through to_dict and from_dict
C8_Witness ==
    /\ cfg_back # NoCfg
    /\ overridden = {}
    /\ preset_arg = n_premium
    /\ cfg_back.watermark = "VERIFIED"

ClaimedIncrement(e) ==
    CASE e = "title" -> 60
      [] e = "subtitle" -> 30
      [] e = "show_address" -> 80
      [] e = "watermark" -> 30

\* C10: switching on one more optional element raises the canvas height by
\* that element's increment, whatever else is enabled, and keeps the width.
C10_EnableAddsIncrement ==
    lprev # NoLayout =>
        /\ layout.height = lprev.layout.height + ClaimedIncrement(lprev.element)
        /\ layout.width = lprev.layout.width

\* the watermark was switched on with the three other elements already on
C10_Witness ==
    /\ lprev # NoLayout
    /\ lprev.element = "watermark"
    /\ \A e \in Elements \ {"watermark"} : ElementOn(lprev.config, e)
    /\ layout.height = lprev.layout.height + 30
    /\ qr_size[1] > 0

Positions(l) ==
    {l.qr_position, l.title_position, l.subtitle_position, l.address_position,
     l.logo_position, l.watermark_position}

\* C11: for every QR size (w, h) with w, h >= 0 and every configuration, each
\* position of the layout (QR block, title, subtitle, address, logo badge,
\* watermark) has 0 <= x < width and 0 <= y < height.
C11_PositionsOnCanvas ==
    layout # NoLayout =>
        \A p \in Positions(layout) :
            /\ 0 <= p[1] /\ p[1] < layout.width
            /\ 0 <= p[2] /\ p[2] < layout.height

\* C12 as stated: the canvas height is the QR height, twice the padding and
\* the increments of the enabled elements; QR height + 80 for minimalist.
C12_HeightIsPaddingPlusIncrements ==
    layout # NoLayout =>
        /\ layout.height =
               qr_size[2] + 2 * 40
               + (IF Truthy(lcfg.title) THEN 60 ELSE 0)
               + (IF Truthy(lcfg.subtitle) THEN 30 ELSE 0)
               + (IF lcfg.show_address THEN 80 ELSE 0)
               + (IF Truthy(lcfg.watermark) THEN 30 ELSE 0)
        /\ lcfg = presets[n_minimalist] => layout.height = qr_size[2] + 80

\* C12, amended: the canvas height is the QR height, twice the padding, a
\* base of 40 and the increments of the enabled elements; QR height + 120 for
\* minimalist.
C12_HeightIsPaddingBaseAndIncrements ==
    layout # NoLayout =>
        /\ layout.height =
               qr_size[2] + 2 * 40 + 40
               + (IF Truthy(lcfg.title) THEN 60 ELSE 0)
               + (IF Truthy(lcfg.subtitle) THEN 30 ELSE 0)
               + (IF lcfg.show_address THEN 80 ELSE 0)
               + (IF Truthy(lcfg.watermark) THEN 30 ELSE 0)
        /\ lcfg = presets[n_minimalist] => layout.height = qr_size[2] + 120

\* the layout of the minimalist preset around its real QR image
C12_Witness ==
    /\ layout # NoLayout
    /\ lcfg = presets[n_minimalist]
    /\ qr_size = <<QRSide(lcfg), QRSide(lcfg)>>
    /\ layout.height = QRSide(lcfg) + 120

StageSet(k) == {outcomes[k].stages[j] : j \in 1..Len(outcomes[k].stages)}

\* the data fits some symbol version
Fits(data) == Len(data) <= Capacity(QRMaxVersion)

Drew(k, op, text) ==
    \E j \in 1..Len(outcomes[k].canvas) :
        outcomes[k].canvas[j].op = op /\ outcomes[k].canvas[j].text = text

\* C13: with the premium preset, rendering an address (one that fits a symbol,
\* into a writable directory) yields a result whose style tag is "standard",
\* and the watermark overlay stage runs with the text "VERIFIED".
C13_PremiumIsStandardWithWatermark ==
    (selfconfig = presets[n_premium] /\ dir_state = "ok") =>
        /\ \A k \in 1..Len(outcomes) :
               Fits(addresses[k]) =>
                   /\ outcomes[k].raised = NoExc
                   /\ "watermark" \in StageSet(k)
                   /\ Drew(k, "watermark", "VERIFIED")
        /\ \A j \in 1..Len(results) : results[j].style = "standard"

\* a premium render returned a "standard" result after drawing the watermark
C13_Witness ==
    /\ selfconfig = presets[n_premium]
    /\ \E j \in 1..Len(results) :
           /\ results[j].style = "standard"
           /\ results[j].address = TestTon
    /\ \E k \in Succeeded : Drew(k, "watermark", "VERIFIED")

\* C14: two generate() calls with the same data and configuration, writing to
\* different paths, return the same pixel dimensions, whatever calls were made
\* before them on the same generator.
C14_DimensionsFromDataAndConfig ==
    \A j, h \in 1..Len(results) :
        results[j].address = results[h].address =>
            results[j].dimensions = results[h].dimensions

\* the first and third call rendered the same data to different paths, with a
\* render of another size between them
C14_Witness ==
    /\ Len(results) = 3
    /\ results[1].address = results[3].address
    /\ results[1].filepath # results[3].filepath
    /\ results[1].dimensions = results[3].dimensions
    /\ results[2].dimensions # results[1].dimensions

\* the logo flag is on and there is no usable logo image
LogoUnusable ==
    /\ selfconfig.add_logo
    /\ ~Truthy(selfconfig.logo_path) \/ logo_file \in {"missing", "unreadable"}

\* the QR image the encode stage makes
EncodedImage(data, config) ==
    IF is_gradient(config) THEN create_gradient_qr(data, config)
    ELSE create_base_qr(data, config)

\* what the stages before the write raise for this data and configuration
StageFailure(data, config) ==
    LET img == EncodedImage(data, config)
    IN  IF img.error # NoExc THEN img.error
        ELSE IF create_background(config) # NoExc THEN create_background(config)
        ELSE IF add_emboss_effect(config) # NoExc THEN add_emboss_effect(config)
        ELSE draw_texts(config)

\* C15: with the logo flag on and the logo path unset, missing or unreadable,
\* the logo stage never fails and leaves the QR image as the encode stage made
\* it; the later stages run and the call ends as it does with the flag off.
C15_UnusableLogoIsSkipped ==
    LogoUnusable =>
        \A k \in 1..Len(outcomes) :
            LET off == [selfconfig EXCEPT !.add_logo = FALSE]
                e == StageFailure(addresses[k], off)
            IN  /\ ~outcomes[k].qr_img.logo
                /\ "encode" \in StageSet(k) =>
                       /\ "logo" \in StageSet(k)
                       /\ outcomes[k].qr_img = EncodedImage(addresses[k], off)
                /\ IF e # NoExc
                   THEN outcomes[k].cause = Exc(e.root, e.msg[Len(e.msg)])
                   ELSE /\ "paste" \in StageSet(k) /\ "text" \in StageSet(k)
                        /\ outcomes[k].cause.type
                               \in {None, "PermissionError", "FileNotFoundError"}

\* an unreadable logo file was skipped and the render went on to write its file
C15_Witness ==
    /\ selfconfig.add_logo
    /\ Truthy(selfconfig.logo_path)
    /\ logo_file = "unreadable"
    /\ \E k \in Succeeded :
           /\ ~outcomes[k].qr_img.logo
           /\ {"logo", "paste", "save"} \subseteq StageSet(k)
           /\ outcomes[k].file

\* C16: in one generate_batch call the output file names of two distinct list
\* positions differ, also for equal data, and the name of an item is the one
\* generate_filename gives for its data and index.
C16_BatchFilenamesDistinct ==
    /\ \A k, h \in 1..Len(outcomes) :
           k # h => outcomes[k].path # outcomes[h].path
    /\ \A k \in 1..Len(outcomes) :
           outcomes[k].path = generate_filename(addresses[k], n_batch, k)

\* the same data at positions 1 and 3: same hash, different names
C16_Witness ==
    /\ Len(outcomes) = 3
    /\ addresses[1] = addresses[3]
    /\ outcomes[1].path # outcomes[3].path
    /\ short_hash(addresses[1]) = short_hash(addresses[3])
    /\ SubSeq(outcomes[3].path, 1, 6) = <<"q", "r", "_", "0", "0", "3">>

ClaimedStageOrder ==
    <<"encode", "logo", "background", "paste", "emboss", "text", "watermark",
      "save", "getsize">>

ClaimedRank(s) == CHOOSE r \in 1..Len(ClaimedStageOrder) : ClaimedStageOrder[r] = s

Encloses(outer, inner) ==
    /\ outer[1] <= inner[1] /\ outer[2] <= inner[2]
    /\ inner[3] <= outer[3] /\ inner[4] <= outer[4]

\* C17: generate() runs its stages in the order encode, logo, background,
\* composite, border, text, watermark, write; the border is drawn after the QR
\* image is on the canvas, and around the QR block.
C17_StagesInClaimedOrder ==
    \A k \in 1..Len(outcomes) :
        /\ \A a, b \in 1..Len(outcomes[k].stages) :
               a < b => ClaimedRank(outcomes[k].stages[a]) < ClaimedRank(outcomes[k].stages[b])
        /\ \A b \in 1..Len(outcomes[k].canvas) :
               outcomes[k].canvas[b].op = "emboss" =>
                   \E a \in 1..(b - 1) :
                       /\ outcomes[k].canvas[a].op = "paste"
                       /\ Encloses(outcomes[k].canvas[b].box, outcomes[k].canvas[a].box)

\* C18: no step of generate_batch or generate changes the generator's
\* configuration: every field, the extension map included, keeps its value.
C18_ConfigNeverModified == [][selfconfig' = selfconfig]_vars

\* a batch with successful and failed renders has returned
C18_Witness ==
    /\ pc = "returned"
    /\ selfconfig = presets[n_premium]
    /\ Succeeded # {}
    /\ Succeeded # 1..Len(outcomes)

\* C19: after any add_style calls on manager A and save_styles(f), a fresh
\* manager B that calls load_styles(f) lists every style name of A and holds
\* for each a configuration equal to A's on every field.
C19_SavedStylesLoadBack ==
    mphase = "loaded" =>
        /\ list_styles(mgrA) \subseteq list_styles(mgrB)
        /\ \A n \in list_styles(mgrA) :
               /\ DOMAIN mgrB[n] = Fields
               /\ \A f \in Fields : mgrB[n][f] = mgrA[n][f]

\* A held a custom style and its own "dark", with a null watermark; B has both
C19_Witness ==
    /\ mphase = "loaded"
    /\ madds = 2
    /\ n_custom \in list_styles(mgrA)
    /\ mgrA[n_dark] # presets[n_dark]
    /\ mgrA[n_dark].watermark = None
    /\ mgrB[n_dark] = mgrA[n_dark]
    /\ mgrB[n_custom].custom_css = GradientCss

\* the exception came from a stage before the write
FailedBeforeWrite(k) ==
    /\ outcomes[k].raised # NoExc
    /\ "save" \notin StageSet(k)
    /\ outcomes[k].cause.type # "PermissionError"

\* module size <= 0, or data no symbol version holds
IsConfigurationError(e) ==
    \/ e.type = "DataOverflowError"
    \/ e.type = "ValueError" /\ e.msg = <<"Invalid box size">>

\* C20: when generate() fails in a stage before the write, no file exists at
\* its output path afterwards; a module size <= 0 and data too large for any
\* symbol are raised by the encode stage, before the canvas is built.
C20_FailureBeforeWriteLeavesNoFile ==
    \A k \in 1..Len(outcomes) :
        FailedBeforeWrite(k) =>
            /\ ~outcomes[k].file
            /\ outcomes[k].path \notin files
            /\ IsConfigurationError(outcomes[k].cause) =>
                   (outcomes[k].stages = <<>> /\ outcomes[k].canvas = <<>>)

\* a render failed on its border colour after the canvas was built and left
\* no file
C20_Witness ==
    \E k \in 1..Len(outcomes) :
        /\ FailedBeforeWrite(k)
        /\ outcomes[k].cause.msg = <<"invalid literal for int() with base 16">>
        /\ "background" \in StageSet(k)
        /\ ~outcomes[k].file
        /\ pc = "returned"
        /\ files = {}

\* C21: for every QR size (w, h) and configuration, Layout.auto returns
\* width w + 80, padding 40, QR position (40, 40 + (60 if the title is
\* non-empty else 20)), title position (40, 30), subtitle position (40, 70)
\* and address position (40, QR-y + h + 20).
C21_LayoutGeometry ==
    layout # NoLayout =>
        LET qr_y == 40 + (IF lcfg.title # "" THEN 60 ELSE 20)
        IN  /\ layout.width = qr_size[1] + 80
            /\ layout.padding = 40
            /\ layout.qr_position = <<40, qr_y>>
            /\ layout.title_position = <<40, 30>>
            /\ layout.subtitle_position = <<40, 70>>
            /\ layout.address_position = <<40, qr_y + qr_size[2] + 20>>

\* a layout for a QR image that is higher than wide, with a title
C21_Witness ==
    /\ layout # NoLayout
    /\ qr_size[1] < qr_size[2]
    /\ lcfg.title # ""
    /\ layout.qr_position = <<40, 100>>
    /\ layout.address_position[2] = qr_size[2] + 120

\* C27: the anchor of each present header element is strictly above the top
\* edge of the QR block: title y < QR y when the title is non-empty, subtitle
\* y < QR y when the subtitle is non-empty, for every combination of the two.
C27_HeadersAboveQR ==
    layout # NoLayout =>
        /\ Truthy(lcfg.title) => layout.title_position[2] < layout.qr_position[2]
        /\ Truthy(lcfg.subtitle) => layout.subtitle_position[2] < layout.qr_position[2]

\* C28: the QR block lies inside the canvas, and with address display on the
\* address anchor is at or below the block's bottom edge and above the
\* canvas's bottom edge.
C28_QRBlockInsideCanvas ==
    layout # NoLayout =>
        /\ layout.qr_position[1] + qr_size[1] <= layout.width
        /\ layout.qr_position[2] + qr_size[2] <= layout.height
        /\ lcfg.show_address =>
               /\ layout.address_position[2] >= layout.qr_position[2] + qr_size[2]
               /\ layout.address_position[2] < layout.height

\* address display on, nothing else: the anchor is 20 below the QR block
C28_Witness ==
    /\ layout # NoLayout
    /\ lcfg.show_address
    /\ ~Truthy(lcfg.title) /\ ~Truthy(lcfg.subtitle) /\ ~Truthy(lcfg.watermark)
    /\ qr_size[2] > 0
    /\ layout.address_position[2] = layout.qr_position[2] + qr_size[2] + 20
    /\ layout.height = layout.address_position[2] + 120

\* the texts and anchors of the operations of one kind a call drew, in order
Drawn(k, op) == SelectSeq(outcomes[k].canvas, LAMBDA o : o.op = op)

RECURSIVE Concat(_)
Concat(ss) == IF ss = <<>> THEN <<>> ELSE Head(ss) \o Concat(Tail(ss))

\* C22: with address display on, the short form is the data itself up to 30
\* characters and otherwise its first 15 characters, "...", and its last 15;
\* the full address is one line up to 50 characters and otherwise chunks of
\* at most 50 characters, in order, 15 pixels apart, that concatenate to it.
C22_AddressDisplayAndChunks ==
    \A k \in 1..Len(outcomes) :
        ("text" \in StageSet(k) /\ selfconfig.show_address) =>
            LET data == addresses[k]
                short == Drawn(k, "display_addr")
                lines == Drawn(k, "chunk")
            IN  /\ Len(short) = 1
                /\ IF Len(data) <= 30
                   THEN short[1].text = data
                   ELSE /\ Len(short[1].text) = 33
                        /\ \A j \in 1..15 : short[1].text[j] = data[j]
                        /\ \A j \in 16..18 : short[1].text[j] = "."
                        /\ \A j \in 1..15 :
                               short[1].text[18 + j] = data[Len(data) - 15 + j]
                /\ IF Len(data) <= 50
                   THEN Len(lines) = 1 /\ lines[1].text = data
                   ELSE /\ \A j \in 1..Len(lines) :
                               Len(lines[j].text) >= 1 /\ Len(lines[j].text) <= 50
                        /\ Concat([j \in 1..Len(lines) |-> lines[j].text]) = data
                        /\ \A j \in 2..Len(lines) :
                               /\ lines[j].box[2] = lines[j - 1].box[2] + 15
                               /\ lines[j].box[1] = lines[j - 1].box[1]

\* 101 characters were drawn as lines of 50, 50 and 1, under a short form
\* with the dots in it
C22_Witness ==
    /\ Len(outcomes) = 1
    /\ Len(addresses[1]) = 101
    /\ outcomes[1].raised = NoExc
    /\ Len(Drawn(1, "chunk")) = 3
    /\ Len(Drawn(1, "chunk")[3].text) = 1
    /\ Drawn(1, "display_addr")[1].text[17] = "."

\* C23: a configuration whose foreground colour is a symbolic name the
\* imaging backend accepts renders successfully, with the decorative border
\* on as with it off.
C23_NamedForegroundRenders ==
    \A k \in 1..Len(outcomes) :
        ( /\ selfconfig.fill_color \in NamedColors
          /\ ValidColor(selfconfig.back_color)
          /\ QRCodeCtor(selfconfig) = NoExc
          /\ ~is_gradient(selfconfig)
          /\ Fits(addresses[k])
          /\ dir_state = "ok" )
        => outcomes[k].raised = NoExc

\* the command-line option behind a field of the configuration
OptionOf(f) ==
    CASE f = "fill_color" -> "color"
      [] f = "back_color" -> "background"
      [] f = "watermark" -> "watermark"
      [] f = "add_logo" -> "logo"
      [] f = "border" -> "border"
      [] f = "error_correction" -> "error_correction"
      [] f = "version" -> "size"
      [] f = "box_size" -> "size"

\* C24: the configuration the command line builds is the named preset with
\* only the given options overriding it: the colours, watermark, logo flag,
\* border, error correction, density and module size keep the preset's value
\* when their option is not on the command line.
C24_UngivenOptionsKeepPreset ==
    cli_config # NoCfg =>
        \A f \in {"fill_color", "back_color", "watermark", "add_logo", "border",
                  "error_correction", "version", "box_size"} :
            OptionOf(f) \notin DOMAIN argv =>
                cli_config[f] = from_preset(parse_args(argv).style)[f]

ClaimedGenericChars ==
    LowerCase \cup UpperCase \cup Digits \cup {"-", "_", "+", "=", "/", "."}

OnlyClaimedChars(s) == \A k \in 1..Len(s) : s[k] \in ClaimedGenericChars

\* C25: the verdict is valid exactly when the input has at least 10
\* characters and its trimmed form is non-empty and made of [A-Za-z0-9-_+=/.]
\* only; (false, "unknown") is returned exactly for inputs of at least 10
\* characters whose trimmed form is empty or holds another character.
C25_ValidIffGenericShape ==
    verdict # NoVerdict =>
        LET t == strip(address)
            shaped == Len(t) >= 1 /\ OnlyClaimedChars(t)
        IN  /\ verdict.valid <=> (Len(address) >= 10 /\ shaped)
            /\ (~verdict.valid /\ verdict.type = "unknown")
                   <=> (Len(address) >= 10 /\ ~shaped)

\* ten blanks: long enough, nothing left after trimming, "unknown"
C25_Witness ==
    /\ Len(address) >= 10
    /\ strip(address) = <<>>
    /\ ~verdict.valid
    /\ verdict.type = "unknown"
    /\ Len(verdict.consulted) = 6

\* C26: every string classified as valid has at least 10 characters after
\* trimming; blanks around a shorter string never make it valid.
C26_ValidHasTenAfterTrim ==
    (verdict # NoVerdict /\ verdict.valid) => Len(strip(address)) >= 10

\* every listed name of a manager resolves to the configuration stored under it
Resolves(styles) ==
    \A n \in list_styles(styles) :
        /\ lower(n) \in DOMAIN styles
        /\ get_style(styles, n) = styles[n]

\* C29: after any construction, add_style and load_styles calls, every name
\* list_styles() returns resolves through get_style(name) to the
\* configuration stored under that name, never None, whatever the letter case
\* of the names given to add_style or found as keys of a loaded file.
C29_ListedNamesResolve ==
    mphase # "unused" =>
        /\ Resolves(mgrA)
        /\ mphase \in {"constructed", "loaded"} => Resolves(mgrB)

\* C30: an exception raised by the progress callback does not abort the batch
\* and does not remove the item: its result was appended before the callback
\* ran and stays in the returned list, the exception is swallowed, and the
\* remaining items are attempted.
C30_CallbackFailureKeepsItem ==
    callback = "raises" =>
        /\ dir_state # "cannot_create" => pc # "batch_raised"
        /\ (pc = "batch_except" /\ exc.type = "RuntimeError") =>
               /\ i \in Succeeded
               /\ results[Len(results)].address = addresses[i]
               /\ results[Len(results)].filepath = output_path
        /\ pc = "returned" =>
               /\ Len(outcomes) = Len(addresses)
               /\ Len(progress_calls) = Cardinality(Succeeded)
               /\ \A k \in Succeeded :
                      \E j \in 1..Len(results) :
                          /\ results[j].filepath = outcomes[k].path
                          /\ results[j].address = addresses[k]

\* the callback raised for each of three items, and all three were returned
C30_Witness ==
    /\ callback = "raises"
    /\ pc = "returned"
    /\ Len(addresses) = 3
    /\ Succeeded = {1, 2, 3}
    /\ Len(results) = 3
    /\ Len(progress_calls) = 3
    /\ printed = <<1, 2, 3>>

====
